---- MODULE Spec2Model ----
(***************************************************************************)
(* Model of the trackio Rust client.                                       *)
(*                                                                         *)
(*   Client  (src/trackio-rs/src/client.rs): a mutex-protected buffer of   *)
(*           LogItems, a threshold auto-flush inside log, an explicit      *)
(*           flush/close, a OnceCell caching the bulk endpoint path and    *)
(*           try_post classifying the HTTP outcome.                        *)
(*   Batcher (src/contrib/trackio-rs/src/batcher.rs): a std Mutex buffer,  *)
(*           enqueue with a threshold flush, a manual flush and a          *)
(*           background timer thread that flushes periodically.            *)
(*                                                                         *)
(* Spec is the Client state machine, SpecB the Batcher state machine.      *)
(* Variables of the other component stay unchanged in each.  FairSpec is   *)
(* Spec with every started call running to its end.                        *)
(*                                                                         *)
(* Calls are interleaved at the points where threads can observe each      *)
(* other: lock acquisition and release, the OnceCell, the issue of a POST  *)
(* and its answer.  drained, posts, cacheSets and returns (bposts and      *)
(* breturns for the Batcher) are history variables the code does not hold. *)
(***************************************************************************)
EXTENDS Integers, Sequences, FiniteSets, TLC

(***************************************************************************)
(* Bounds of the model.                                                    *)
(***************************************************************************)
NumThreads == 2
MaxCalls == 4
MaxBatch == 2

Threads == 1..NumThreads
NoThread == 0

(***************************************************************************)
(* Option<T>: None is the empty sequence, Some(x) the one-element one.     *)
(***************************************************************************)
None == <<>>
Some(x) == <<x>>
unwrap_or(o, d) == IF o = None THEN d ELSE o[1]

(***************************************************************************)
(* Data of client.rs.                                                      *)
(***************************************************************************)
PrimaryPath == "/api/bulk_log"
FallbackPath == "/gradio_api/bulk_log"

LogItem(m, s, ts) == [metrics |-> m, step |-> s, timestamp |-> ts]

\* A payload builder that fills steps from the last item to the first.
StepsReversed(its) ==
    [project |-> "project", run |-> "run",
     metrics_list |-> [k \in 1..Len(its) |-> its[k].metrics],
     steps |-> [k \in 1..Len(its) |-> unwrap_or(its[Len(its) + 1 - k].step, -1)],
     timestamps |-> [k \in 1..Len(its) |-> unwrap_or(its[k].timestamp, "")],
     config |-> None]

\* BulkPayload built by flush from the drained items: the loop pushes the
\* k-th item's metrics, step (or -1) and timestamp (or "") to the three lists.
BulkPayload(its) ==
    [project |-> "project", run |-> "run",
     metrics_list |-> [k \in 1..Len(its) |-> its[k].metrics],
     steps |-> [k \in 1..Len(its) |-> unwrap_or(its[k].step, -1)],
     timestamps |-> [k \in 1..Len(its) |-> unwrap_or(its[k].timestamp, "")],
     config |-> None]

NoPayload == [project |-> "", run |-> "", metrics_list |-> <<>>, steps |-> <<>>,
              timestamps |-> <<>>, config |-> None]

(***************************************************************************)
(* The server's answer to one POST: the request either fails in transport  *)
(* (sent = FALSE) or is answered with an HTTP status.                      *)
(***************************************************************************)
TransportFailure == [sent |-> FALSE, status |-> 0]
Http(code) == [sent |-> TRUE, status |-> code]
Pending == [sent |-> FALSE, status |-> -1]
Responses == {TransportFailure, Http(200), Http(404), Http(500)}

is_success(status) == status >= 200 /\ status <= 299

\* Results: Ok(()), the () of log, the variants of TrackioError; Running
\* marks a flush that has not returned yet.
Ok == [kind |-> "Ok", code |-> 0]
Unit == [kind |-> "Unit", code |-> 0]
Running == [kind |-> "Running", code |-> 0]
ErrNoBulkEndpoint == [kind |-> "NoBulkEndpoint", code |-> 0]
ErrHttp == [kind |-> "Http", code |-> 0]
ErrNotFound == [kind |-> "NotFound", code |-> 404]
ErrStatus(code) == [kind |-> "Status", code |-> code]

\* try_post: the outcome of one POST given the server's answer.
try_post(resp) ==
    IF ~resp.sent THEN ErrHttp
    ELSE IF ~is_success(resp.status)
         THEN IF resp.status = 404 THEN ErrNotFound ELSE ErrStatus(resp.status)
         ELSE Ok

\* A resolver that also accepts a 404 answer as a working endpoint.
is_ok_or_not_found(res) == res = Ok \/ res = ErrNotFound

\* A resolver for which no candidate ever succeeds.
never_ok(res) == FALSE

is_ok(res) == res = Ok

VARIABLES
    buf,               \* Client.buf: the pending items
    bufLock,           \* holder of the buf mutex, NoThread when free
    cached_bulk_path,  \* Client.cached_bulk_path: None or Some(path)
    cellOwner,         \* thread running the OnceCell initializer, or NoThread
    pc,                \* position of each thread
    op,                \* entry point a thread is in: log, flush, close; none when idle
    arg,               \* the LogItem a log call is about to push
    payload,           \* flush's local payload
    bid,               \* index in drained of the batch a thread's flush drained
    cur,               \* index in posts of the POST a thread has in flight
    nextId,            \* number of log calls started, plus one
    calls,             \* number of log, flush and close calls started
    drained,           \* history: the batches drained, in drain order
    posts,             \* history: the POSTs issued, in issue order
    cacheSets,         \* history: the values written to cached_bulk_path
    returns            \* history: what the finished calls returned

cvars == <<buf, bufLock, cached_bulk_path, cellOwner, pc, op, arg, payload, bid, cur,
           nextId, calls, drained, posts, cacheSets, returns>>

VARIABLES
    batcher_buf,       \* Batcher.buf: the pending items
    guard,             \* holder of the Batcher buf mutex, NoThread when free
    poisoned,          \* the std Mutex was unlocked by a panicking thread
    bpc,               \* position of each Batcher caller and of the timer thread
    entry,             \* what started a thread's flush_static: enqueue, flush, timer
    item,              \* the LogItem an enqueue call is about to push
    items,             \* flush_static's local copy of the drained items
    bcur,              \* index in bposts of the POST a thread has in flight
    enqueued,          \* number of enqueue calls started
    bcalls,            \* number of enqueue and flush calls started
    bposts,            \* history: the POSTs flush_static issued, in issue order
    breturns           \* history: what the finished calls and timer rounds returned

bvars == <<batcher_buf, guard, poisoned, bpc, entry, item, items, bcur, enqueued, bcalls,
           bposts, breturns>>

vars == <<cvars, bvars>>

Timer == NumThreads + 1
BThreads == Threads \cup {Timer}

NoItem == LogItem(0, None, None)

Init ==
    /\ buf = <<>>
    /\ bufLock = NoThread
    /\ cached_bulk_path = None
    /\ cellOwner = NoThread
    /\ pc = [t \in Threads |-> "idle"]
    /\ op = [t \in Threads |-> "none"]
    /\ arg = [t \in Threads |-> NoItem]
    /\ payload = [t \in Threads |-> NoPayload]
    /\ bid = [t \in Threads |-> 0]
    /\ cur = [t \in Threads |-> 0]
    /\ nextId = 1
    /\ calls = 0
    /\ drained = <<>>
    /\ posts = <<>>
    /\ cacheSets = <<>>
    /\ returns = {}
    /\ batcher_buf = <<>>
    /\ guard = NoThread
    /\ poisoned = FALSE
    /\ bpc = [t \in BThreads |-> IF t = Timer THEN "sleep" ELSE "idle"]
    /\ entry = [t \in BThreads |-> "none"]
    /\ item = [t \in BThreads |-> NoItem]
    /\ items = [t \in BThreads |-> <<>>]
    /\ bcur = [t \in BThreads |-> 0]
    /\ enqueued = 0
    /\ bcalls = 0
    /\ bposts = <<>>
    /\ breturns = {}

(***************************************************************************)
(* Client::log                                                             *)
(***************************************************************************)

\* The (step, ts) arguments a log call is given: a step without a
\* timestamp, as in examples/quickstart.rs, or a timestamp without a step.
LogInputs(n) == {<<Some(n - 1), None>>, <<None, Some("ts")>>}

\* An emptiness test that never answers yes.
never_empty(b) == FALSE

\* Vec::is_empty, the test flush and flush_static make on the locked buffer.
is_empty(b) == b = <<>>

\* A flush that clones the buffer and forgets to clear it.
NotCleared(b) == b

\* buf.clear() after the clone: what flush leaves in the buffer.
Cleared(b) == <<>>

\* A threshold test that lets the buffer hold max_batch items.
ExceededMaxBatch(b) == Len(b) > MaxBatch

\* A threshold test that fires on every append.
ReachedOne(b) == Len(b) >= 1

\* The threshold test of log.
ReachedMaxBatch(b) == Len(b) >= MaxBatch

\* An entry point that hands the result of the flush to every caller.
SurfacedAlways(e, res) == res

\* What the caller of an entry point receives when the flush it ran returns
\* res: log discards it (let _ = self.flush()), flush and close return it.
Surfaced(e, res) == IF e = "log" THEN Unit ELSE res

\* A call returns: its locals are dropped and its outcome is recorded.
Return(t, res) ==
    /\ pc' = [pc EXCEPT ![t] = "idle"]
    /\ op' = [op EXCEPT ![t] = "none"]
    /\ bid' = [bid EXCEPT ![t] = 0]
    /\ payload' = [payload EXCEPT ![t] = NoPayload]
    /\ cur' = [cur EXCEPT ![t] = 0]
    /\ returns' = returns \cup {[entry |-> op[t], batch |-> bid[t],
                                 out |-> Surfaced(op[t], res)]}

\* log: self.buf.lock()
LogCall(t, s, ts) ==
    /\ pc[t] = "idle"
    /\ calls < MaxCalls
    /\ bufLock = NoThread
    /\ bufLock' = t
    /\ calls' = calls + 1
    /\ arg' = [arg EXCEPT ![t] = LogItem(nextId, s, ts)]
    /\ nextId' = nextId + 1
    /\ op' = [op EXCEPT ![t] = "log"]
    /\ pc' = [pc EXCEPT ![t] = "log_push"]
    /\ UNCHANGED <<buf, cached_bulk_path, cellOwner, payload, bid, cur, drained, posts,
                   cacheSets, returns>>
    /\ UNCHANGED bvars

\* log: buf.push(item); if buf.len() >= max_batch { drop(buf); flush() }
LogPush(t) ==
    /\ pc[t] = "log_push"
    /\ bufLock = t
    /\ buf' = Append(buf, arg[t])
    /\ bufLock' = NoThread
    /\ arg' = [arg EXCEPT ![t] = NoItem]
    /\ IF ReachedMaxBatch(buf')
       THEN /\ pc' = [pc EXCEPT ![t] = "flush_lock"]
            /\ UNCHANGED <<op, bid, payload, cur, returns>>
       ELSE Return(t, Unit)
    /\ UNCHANGED <<cached_bulk_path, cellOwner, nextId, calls, drained, posts, cacheSets>>
    /\ UNCHANGED bvars

(***************************************************************************)
(* Client::flush and Client::close                                         *)
(***************************************************************************)

\* flush, called by flush(): let mut buf = self.buf.lock();
FlushCall(t) ==
    /\ pc[t] = "idle"
    /\ calls < MaxCalls
    /\ bufLock = NoThread
    /\ bufLock' = t
    /\ calls' = calls + 1
    /\ op' = [op EXCEPT ![t] = "flush"]
    /\ pc' = [pc EXCEPT ![t] = "flush_drain"]
    /\ UNCHANGED <<buf, cached_bulk_path, cellOwner, arg, payload, bid, cur, nextId,
                   drained, posts, cacheSets, returns>>
    /\ UNCHANGED bvars

\* close: self.flush()
CloseCall(t) ==
    /\ pc[t] = "idle"
    /\ calls < MaxCalls
    /\ bufLock = NoThread
    /\ bufLock' = t
    /\ calls' = calls + 1
    /\ op' = [op EXCEPT ![t] = "close"]
    /\ pc' = [pc EXCEPT ![t] = "flush_drain"]
    /\ UNCHANGED <<buf, cached_bulk_path, cellOwner, arg, payload, bid, cur, nextId,
                   drained, posts, cacheSets, returns>>
    /\ UNCHANGED bvars

\* flush, called by log after drop(buf): let mut buf = self.buf.lock();
FlushLock(t) ==
    /\ pc[t] = "flush_lock"
    /\ bufLock = NoThread
    /\ bufLock' = t
    /\ pc' = [pc EXCEPT ![t] = "flush_drain"]
    /\ UNCHANGED <<buf, cached_bulk_path, cellOwner, op, arg, payload, bid, cur, nextId,
                   calls, drained, posts, cacheSets, returns>>
    /\ UNCHANGED bvars

\* A flush whose guard lives until flush returns.
GuardKept(t) == t

\* The holder of the buf mutex after the drain block of flush: the guard
\* `buf` goes out of scope at the end of the block, before the payload is
\* built and POSTed.
GuardDropped(t) == NoThread

\* flush: empty buffer returns Ok(()); otherwise clone, clear, unlock and
\* build the payload.
FlushDrain(t) ==
    /\ pc[t] = "flush_drain"
    /\ bufLock = t
    /\ IF is_empty(buf)
       THEN /\ Return(t, Ok)
            /\ bufLock' = NoThread
            /\ UNCHANGED <<buf, drained>>
       ELSE /\ buf' = Cleared(buf)
            /\ bufLock' = GuardDropped(t)
            /\ drained' = Append(drained, [items |-> buf, entry |-> op[t], res |-> Running])
            /\ bid' = [bid EXCEPT ![t] = Len(drained) + 1]
            /\ payload' = [payload EXCEPT ![t] = BulkPayload(buf)]
            /\ pc' = [pc EXCEPT ![t] = "resolve"]
            /\ UNCHANGED <<op, cur, returns>>
    /\ UNCHANGED <<cached_bulk_path, cellOwner, arg, nextId, calls, posts, cacheSets>>
    /\ UNCHANGED bvars

\* A cell that lets every caller run its initializer at once.
CellAlwaysFree == TRUE

\* OnceCell::get_or_try_init admits one initializer at a time.
CellFree == cellOwner = NoThread

\* try_post: the request a thread sends to a path.
Request(t, path, phase) ==
    [batch |-> bid[t], path |-> path, payload |-> payload[t], entry |-> op[t],
     phase |-> phase, cached |-> cached_bulk_path, resp |-> Pending]

\* try_post: req.send() issues the POST.
Send(t, path, phase) ==
    /\ posts' = Append(posts, Request(t, path, phase))
    /\ cur' = [cur EXCEPT ![t] = Len(posts) + 1]
    /\ pc' = [pc EXCEPT ![t] = phase \o "_wait"]

\* flush: self.cached_bulk_path.get_or_try_init(..) on a set cell yields the
\* cached path, and self.try_post(path, &payload) POSTs to it.
ResolveCached(t) ==
    /\ pc[t] = "resolve"
    /\ cached_bulk_path # None
    /\ Send(t, cached_bulk_path[1], "final")
    /\ UNCHANGED <<buf, bufLock, cached_bulk_path, cellOwner, op, arg, payload, bid,
                   nextId, calls, drained, cacheSets, returns>>
    /\ UNCHANGED bvars

\* flush: get_or_try_init on an unset cell runs the initializer, unless
\* another thread runs one, in which case the caller waits; the initializer
\* POSTs to the first candidate.
ResolveInit(t) ==
    /\ pc[t] = "resolve"
    /\ cached_bulk_path = None
    /\ CellFree
    /\ cellOwner' = t
    /\ Send(t, PrimaryPath, "disc1")
    /\ UNCHANGED <<buf, bufLock, cached_bulk_path, op, arg, payload, bid, nextId, calls,
                   drained, cacheSets, returns>>
    /\ UNCHANGED bvars

\* flush: self.try_post(path, &payload) after the initializer has succeeded.
FinalSend(t) ==
    /\ pc[t] = "final_send"
    /\ Send(t, cached_bulk_path[1], "final")
    /\ UNCHANGED <<buf, bufLock, cached_bulk_path, cellOwner, op, arg, payload, bid,
                   nextId, calls, drained, cacheSets, returns>>
    /\ UNCHANGED bvars

\* The server answers the POST a thread has in flight.
Answered(t, r) == [posts EXCEPT ![cur[t]].resp = r]

\* The initializer's first candidate: Ok caches "/api/bulk_log"; any error
\* moves on and POSTs to the second candidate.
Disc1Recv(t, r) ==
    /\ pc[t] = "disc1_wait"
    /\ IF is_ok(try_post(r))
       THEN /\ posts' = Answered(t, r)
            /\ cached_bulk_path' = Some(PrimaryPath)
            /\ cacheSets' = Append(cacheSets, PrimaryPath)
            /\ cellOwner' = NoThread
            /\ pc' = [pc EXCEPT ![t] = "final_send"]
            /\ UNCHANGED cur
       ELSE /\ posts' = Append(Answered(t, r), Request(t, FallbackPath, "disc2"))
            /\ cur' = [cur EXCEPT ![t] = Len(posts) + 1]
            /\ pc' = [pc EXCEPT ![t] = "disc2_wait"]
            /\ UNCHANGED <<cached_bulk_path, cacheSets, cellOwner>>
    /\ UNCHANGED <<buf, bufLock, op, arg, payload, bid, nextId, calls, drained, returns>>
    /\ UNCHANGED bvars

\* The initializer's second candidate: Ok caches "/gradio_api/bulk_log", any
\* error makes the initializer fail with NoBulkEndpoint, which `?` returns.
Disc2Recv(t, r) ==
    /\ pc[t] = "disc2_wait"
    /\ posts' = Answered(t, r)
    /\ cellOwner' = NoThread
    /\ IF is_ok(try_post(r))
       THEN /\ cached_bulk_path' = Some(FallbackPath)
            /\ cacheSets' = Append(cacheSets, FallbackPath)
            /\ pc' = [pc EXCEPT ![t] = "final_send"]
            /\ UNCHANGED <<drained, op, bid, payload, cur, returns>>
       ELSE /\ Return(t, ErrNoBulkEndpoint)
            /\ drained' = [drained EXCEPT ![bid[t]].res = ErrNoBulkEndpoint]
            /\ UNCHANGED <<cached_bulk_path, cacheSets>>
    /\ UNCHANGED <<buf, bufLock, arg, nextId, calls>>
    /\ UNCHANGED bvars

\* flush: self.try_post(path, &payload) is the value flush returns.
FinalRecv(t, r) ==
    /\ pc[t] = "final_wait"
    /\ posts' = Answered(t, r)
    /\ Return(t, try_post(r))
    /\ drained' = [drained EXCEPT ![bid[t]].res = try_post(r)]
    /\ UNCHANGED <<buf, bufLock, cached_bulk_path, cellOwner, arg, nextId, calls,
                   cacheSets>>
    /\ UNCHANGED bvars

Next ==
    \/ \E t \in Threads : \E in \in LogInputs(nextId) : LogCall(t, in[1], in[2])
    \/ \E t \in Threads : LogPush(t)
    \/ \E t \in Threads : FlushCall(t)
    \/ \E t \in Threads : CloseCall(t)
    \/ \E t \in Threads : FlushLock(t)
    \/ \E t \in Threads : FlushDrain(t)
    \/ \E t \in Threads : ResolveCached(t)
    \/ \E t \in Threads : ResolveInit(t)
    \/ \E t \in Threads : FinalSend(t)
    \/ \E t \in Threads : \E r \in Responses : Disc1Recv(t, r)
    \/ \E t \in Threads : \E r \in Responses : Disc2Recv(t, r)
    \/ \E t \in Threads : \E r \in Responses : FinalRecv(t, r)

Spec == Init /\ [][Next]_vars

\* A single caller that makes consecutive log calls, as main does in
\* examples/quickstart.rs: no other thread, no explicit flush or close.
SingleCaller == {1}

NextSingle ==
    \/ \E t \in SingleCaller : \E in \in LogInputs(nextId) : LogCall(t, in[1], in[2])
    \/ \E t \in SingleCaller : LogPush(t)
    \/ \E t \in SingleCaller : FlushLock(t)
    \/ \E t \in SingleCaller : FlushDrain(t)
    \/ \E t \in SingleCaller : ResolveCached(t)
    \/ \E t \in SingleCaller : ResolveInit(t)
    \/ \E t \in SingleCaller : FinalSend(t)
    \/ \E t \in SingleCaller : \E r \in Responses : Disc1Recv(t, r)
    \/ \E t \in SingleCaller : \E r \in Responses : Disc2Recv(t, r)
    \/ \E t \in SingleCaller : \E r \in Responses : FinalRecv(t, r)

SpecSingle == Init /\ [][NextSingle]_vars

(***************************************************************************)
(* Batcher (batcher.rs).  Threads 1..NumThreads are callers of enqueue and *)
(* flush; Timer is the thread Batcher::new spawns.                         *)
(***************************************************************************)

\* client.post_json(path, &payload)?: an error of the POST is returned.
post_json(resp) ==
    IF resp.sent /\ is_success(resp.status) THEN Ok ELSE [kind |-> "Err", code |-> 0]

\* Where a thread continues when flush_static returns: the timer thread
\* loops back to its sleep, a caller is done.
AfterFlushStatic(t) == IF t = Timer THEN "sleep" ELSE "idle"

\* flush_static returns res: Batcher::flush returns it, enqueue and the
\* timer loop discard it (let _ = ..).
FlushStaticReturn(t, res) ==
    /\ bpc' = [bpc EXCEPT ![t] = AfterFlushStatic(t)]
    /\ entry' = [entry EXCEPT ![t] = "none"]
    /\ items' = [items EXCEPT ![t] = <<>>]
    /\ bcur' = [bcur EXCEPT ![t] = 0]
    /\ breturns' = breturns \cup {[entry |-> entry[t], sent |-> bcur[t] # 0,
                                   out |-> IF entry[t] = "flush" THEN res ELSE Unit]}

\* enqueue: let mut buf = self.buf.lock().unwrap();
\* a poisoned mutex makes unwrap panic.
Enqueue(t, s, ts) ==
    /\ bpc[t] = "idle"
    /\ bcalls < MaxCalls
    /\ guard = NoThread
    /\ bcalls' = bcalls + 1
    /\ enqueued' = enqueued + 1
    /\ IF poisoned
       THEN /\ bpc' = [bpc EXCEPT ![t] = "panicked"]
            /\ UNCHANGED <<guard, item, entry>>
       ELSE /\ guard' = t
            /\ item' = [item EXCEPT ![t] = LogItem(enqueued + 1, s, ts)]
            /\ entry' = [entry EXCEPT ![t] = "enqueue"]
            /\ bpc' = [bpc EXCEPT ![t] = "enq_push"]
    /\ UNCHANGED <<batcher_buf, poisoned, items, bcur, bposts, breturns>>
    /\ UNCHANGED cvars

\* The holder of the mutex when enqueue calls flush_static: the guard `buf`
\* of enqueue is still in scope there, so the caller itself.
HeldAtFlush(t) == t

\* enqueue: buf.push(item); if buf.len() >= self.max_batch { flush_static }
\* The guard is dropped at the end of enqueue.
EnqueuePush(t) ==
    /\ bpc[t] = "enq_push"
    /\ guard = t
    /\ batcher_buf' = Append(batcher_buf, item[t])
    /\ item' = [item EXCEPT ![t] = NoItem]
    /\ IF Len(batcher_buf') >= MaxBatch
       THEN /\ bpc' = [bpc EXCEPT ![t] = "flush_lock"]
            /\ guard' = HeldAtFlush(t)
            /\ UNCHANGED <<entry, breturns>>
       ELSE /\ bpc' = [bpc EXCEPT ![t] = "idle"]
            /\ guard' = NoThread
            /\ entry' = [entry EXCEPT ![t] = "none"]
            /\ breturns' = breturns \cup {[entry |-> "enqueue", sent |-> FALSE,
                                           out |-> Unit]}
    /\ UNCHANGED <<poisoned, items, bcur, enqueued, bcalls, bposts>>
    /\ UNCHANGED cvars

\* Batcher::flush
BatcherFlush(t) ==
    /\ t \in Threads
    /\ bpc[t] = "idle"
    /\ bcalls < MaxCalls
    /\ bcalls' = bcalls + 1
    /\ entry' = [entry EXCEPT ![t] = "flush"]
    /\ bpc' = [bpc EXCEPT ![t] = "flush_lock"]
    /\ UNCHANGED <<batcher_buf, guard, poisoned, item, items, bcur, enqueued, bposts,
                   breturns>>
    /\ UNCHANGED cvars

\* The timer thread: thread::sleep(interval) ends, flush_static is called.
TimerWake ==
    /\ bpc[Timer] = "sleep"
    /\ entry' = [entry EXCEPT ![Timer] = "timer"]
    /\ bpc' = [bpc EXCEPT ![Timer] = "flush_lock"]
    /\ UNCHANGED <<batcher_buf, guard, poisoned, item, items, bcur, enqueued, bcalls,
                   bposts, breturns>>
    /\ UNCHANGED cvars

\* flush_static: let mut guard = buf.lock().unwrap();
\* std::sync::Mutex::lock by the thread that holds the mutex is unspecified:
\* it never returns, it deadlocks or it panics.  A panic unwinds through
\* enqueue, whose guard is dropped while panicking and poisons the mutex.
\* A free but poisoned mutex makes unwrap panic.
FlushStaticLock(t) ==
    /\ bpc[t] = "flush_lock"
    /\ \/ /\ guard = t
          /\ bpc' = [bpc EXCEPT ![t] = "deadlocked"]
          /\ UNCHANGED <<guard, poisoned>>
       \/ /\ guard = t
          /\ bpc' = [bpc EXCEPT ![t] = "panicked"]
          /\ guard' = NoThread
          /\ poisoned' = TRUE
       \/ /\ guard = NoThread
          /\ poisoned
          /\ bpc' = [bpc EXCEPT ![t] = "panicked"]
          /\ UNCHANGED <<guard, poisoned>>
       \/ /\ guard = NoThread
          /\ ~poisoned
          /\ guard' = t
          /\ bpc' = [bpc EXCEPT ![t] = "flush_drain"]
          /\ UNCHANGED poisoned
    /\ UNCHANGED <<batcher_buf, entry, item, items, bcur, enqueued, bcalls, bposts,
                   breturns>>
    /\ UNCHANGED cvars

\* flush_static: empty buffer returns Ok(()); otherwise clone, clear, unlock.
FlushStaticDrain(t) ==
    /\ bpc[t] = "flush_drain"
    /\ guard = t
    /\ guard' = NoThread
    /\ IF is_empty(batcher_buf)
       THEN /\ FlushStaticReturn(t, Ok)
            /\ UNCHANGED batcher_buf
       ELSE /\ items' = [items EXCEPT ![t] = batcher_buf]
            /\ batcher_buf' = <<>>
            /\ bpc' = [bpc EXCEPT ![t] = "post_send"]
            /\ UNCHANGED <<entry, bcur, breturns>>
    /\ UNCHANGED <<poisoned, item, enqueued, bcalls, bposts>>
    /\ UNCHANGED cvars

\* flush_static: client.post_json("/api/bulk_log", &payload) issues the POST.
PostSend(t) ==
    /\ bpc[t] = "post_send"
    /\ bposts' = Append(bposts, [items |-> items[t], entry |-> entry[t],
                                 path |-> PrimaryPath, resp |-> Pending])
    /\ bcur' = [bcur EXCEPT ![t] = Len(bposts) + 1]
    /\ bpc' = [bpc EXCEPT ![t] = "post_wait"]
    /\ UNCHANGED <<batcher_buf, guard, poisoned, entry, item, items, enqueued, bcalls,
                   breturns>>
    /\ UNCHANGED cvars

\* The server answers; flush_static returns the outcome of post_json.
PostRecv(t, r) ==
    /\ bpc[t] = "post_wait"
    /\ bposts' = [bposts EXCEPT ![bcur[t]].resp = r]
    /\ FlushStaticReturn(t, post_json(r))
    /\ UNCHANGED <<batcher_buf, guard, poisoned, item, enqueued, bcalls>>
    /\ UNCHANGED cvars

NextB ==
    \/ \E t \in Threads : \E in \in LogInputs(enqueued + 1) : Enqueue(t, in[1], in[2])
    \/ \E t \in Threads : EnqueuePush(t)
    \/ \E t \in Threads : BatcherFlush(t)
    \/ TimerWake
    \/ \E t \in BThreads : FlushStaticLock(t)
    \/ \E t \in BThreads : FlushStaticDrain(t)
    \/ \E t \in BThreads : PostSend(t)
    \/ \E t \in BThreads : \E r \in Responses : PostRecv(t, r)

SpecB == Init /\ [][NextB]_vars

(***************************************************************************)
(* A program that uses one of the two: the Client and the Batcher are      *)
(* separate objects that share no state, so a behaviour of the whole is a  *)
(* behaviour of the one that is used.                                      *)
(***************************************************************************)
ClientUntouched == calls = 0
BatcherUntouched == bcalls = 0 /\ breturns = {} /\ bpc[Timer] = "sleep"

NextEither ==
    \/ BatcherUntouched /\ Next
    \/ ClientUntouched /\ NextB

SpecEither == Init /\ [][NextEither]_vars

(***************************************************************************)
(* Properties of Client.                                                   *)
(***************************************************************************)
Batches == 1..Len(drained)
Posts == 1..Len(posts)
PostsOf(b) == {i \in Posts : posts[i].batch = b}
IsAnswered(i) == posts[i].resp # Pending
Answered2xx(i) == posts[i].resp.sent /\ is_success(posts[i].resp.status)
Failed(i) == IsAnswered(i) /\ ~Answered2xx(i)
Returned(b) == drained[b].res # Running
InBatch(it, b) == \E k \in 1..Len(drained[b].items) : drained[b].items[k] = it

\* C1: every drained batch is carried by at most one POST answered 2xx, and
\* a batch whose POSTs all went to the primary path and were accepted is
\* carried by exactly one POST, with its items in order, once its flush has
\* returned.
C1_SentAtMostOnce ==
    \A b \in Batches :
        /\ Cardinality({i \in PostsOf(b) : Answered2xx(i)}) <= 1
        /\ (Returned(b) /\ \A i \in PostsOf(b) : posts[i].path = PrimaryPath /\ Answered2xx(i))
              => /\ Cardinality(PostsOf(b)) = 1
                 /\ \A i \in PostsOf(b) : posts[i].payload = BulkPayload(drained[b].items)

\* C3: POSTs are issued in enqueue order: inside a payload the metrics are
\* in enqueue order, and a POST issued later for another batch carries only
\* items enqueued later.
C3_PostedInEnqueueOrder ==
    \A i \in Posts :
        /\ \A k, l \in 1..Len(posts[i].payload.metrics_list) :
              k < l => posts[i].payload.metrics_list[k] < posts[i].payload.metrics_list[l]
        /\ \A j \in Posts :
              (i < j /\ posts[i].batch # posts[j].batch) =>
                  \A k \in 1..Len(posts[i].payload.metrics_list) :
                  \A l \in 1..Len(posts[j].payload.metrics_list) :
                      posts[i].payload.metrics_list[k] < posts[j].payload.metrics_list[l]

\* C4: an explicit flush one of whose POSTs was answered 500 returns
\* Status(500), and none of its items is back in the buffer.
C4_Status500Surfaced ==
    \A i \in Posts :
        (posts[i].entry = "flush" /\ posts[i].resp = Http(500) /\ Returned(posts[i].batch)) =>
            /\ drained[posts[i].batch].res = ErrStatus(500)
            /\ \A k \in 1..Len(buf) : ~InBatch(buf[k], posts[i].batch)

\* C5: an explicit flush one of whose POSTs failed in transport issues no
\* further POST of that batch and returns the Http error.
C5_TransportFailureSurfaced ==
    \A i \in Posts :
        (posts[i].entry = "flush" /\ posts[i].resp = TransportFailure) =>
            /\ \A j \in PostsOf(posts[i].batch) : j <= i
            /\ Returned(posts[i].batch) => drained[posts[i].batch].res = ErrHttp

\* Steps a thread takes on its own once a call has started.
ThreadStep(t) ==
    \/ LogPush(t)
    \/ FlushLock(t)
    \/ FlushDrain(t)
    \/ ResolveCached(t)
    \/ ResolveInit(t)
    \/ FinalSend(t)
    \/ \E r \in Responses : Disc1Recv(t, r)
    \/ \E r \in Responses : Disc2Recv(t, r)
    \/ \E r \in Responses : FinalRecv(t, r)

\* Every started call runs to its end; callers are free not to call.
FairSpec == Spec /\ \A t \in Threads : WF_vars(ThreadStep(t))

\* C6: an item in the pending buffer is eventually drained without any
\* further call, here even in the states where the callers could still make
\* calls.
C6_EventuallyDrained == (buf # <<>> /\ calls < MaxCalls) ~> (buf = <<>>)

\* C8: the cache is written at most once; a POST issued while the cache is
\* set goes to the cached path; a primary answered 404 followed by a
\* fallback answered 200 caches the fallback.
C8_ResolutionWriteOnce ==
    /\ Len(cacheSets) <= 1
    /\ cached_bulk_path = IF cacheSets = <<>> THEN None ELSE Some(cacheSets[1])
    /\ \A i \in Posts :
          posts[i].cached # None =>
              /\ posts[i].cached = cached_bulk_path
              /\ posts[i].path = posts[i].cached[1]
    /\ \A i, j \in Posts :
          (/\ posts[i].batch = posts[j].batch
           /\ posts[i].phase = "disc1" /\ posts[i].resp = Http(404)
           /\ posts[j].phase = "disc2" /\ posts[j].resp = Http(200))
              => cached_bulk_path = Some(FallbackPath)

\* Witness of C8: the first flush found the primary answering 404 and the
\* fallback 200; the next flush has returned and POSTed to the fallback only.
C8_Witness ==
    /\ Len(drained) = 2
    /\ Returned(2)
    /\ \E i \in PostsOf(1) : posts[i].phase = "disc1" /\ posts[i].resp = Http(404)
    /\ \E i \in PostsOf(1) : posts[i].phase = "disc2" /\ posts[i].resp = Http(200)
    /\ PostsOf(2) # {}
    /\ \A i \in PostsOf(2) : posts[i].path = FallbackPath /\ posts[i].cached # None
    /\ cached_bulk_path = Some(FallbackPath)

AllCandidatesFailed(b) ==
    /\ \E i \in PostsOf(b) : posts[i].phase = "disc1" /\ Failed(i)
    /\ \E i \in PostsOf(b) : posts[i].phase = "disc2" /\ Failed(i)

FirstPostOf(b) == CHOOSE i \in PostsOf(b) : \A j \in PostsOf(b) : i <= j

\* C9: a flush whose two candidates failed returns NoBulkEndpoint; the
\* cache is unset as long as no discovery POST was answered 2xx; a flush
\* that finds the cache unset POSTs to the primary candidate first.
C9_CommitOnlyOnSuccess ==
    /\ \A b \in Batches :
          AllCandidatesFailed(b) =>
              /\ drained[b].res = ErrNoBulkEndpoint
              /\ Cardinality(PostsOf(b)) = 2
    /\ (\A i \in Posts : posts[i].phase = "final" \/ ~Answered2xx(i))
          => cached_bulk_path = None
    /\ \A b \in Batches :
          (PostsOf(b) # {} /\ posts[FirstPostOf(b)].cached = None) =>
              /\ posts[FirstPostOf(b)].path = PrimaryPath
              /\ posts[FirstPostOf(b)].phase = "disc1"

\* Witness of C9: the first flush returned NoBulkEndpoint, the cache is
\* unset and the next flush has POSTed to the primary candidate.
C9_Witness ==
    /\ Len(drained) = 2
    /\ drained[1].res = ErrNoBulkEndpoint
    /\ cached_bulk_path = None
    /\ \E i \in PostsOf(2) : posts[i].phase = "disc1" /\ posts[i].path = PrimaryPath

Pushed(n) == n < nextId /\ ~\E t \in Threads : pc[t] = "log_push" /\ arg[t].metrics = n
CopiesInBuf(n) == Cardinality({k \in 1..Len(buf) : buf[k].metrics = n})
CopiesInBatch(n, b) ==
    Cardinality({k \in 1..Len(drained[b].items) : drained[b].items[k].metrics = n})
BatchesWith(n) == {b \in Batches : CopiesInBatch(n, b) > 0}

\* C10: an appended item is once in the pending buffer or once in one
\* drained batch, never both; an item not yet appended is in neither; a
\* drained batch whose flush has returned had a POST issued for it.
C10_NoLossNoDup ==
    /\ \A n \in 1..MaxCalls :
          IF Pushed(n)
          THEN \/ CopiesInBuf(n) = 1 /\ BatchesWith(n) = {}
               \/ /\ CopiesInBuf(n) = 0
                  /\ \E b \in Batches : BatchesWith(n) = {b} /\ CopiesInBatch(n, b) = 1
          ELSE CopiesInBuf(n) = 0 /\ BatchesWith(n) = {}
    /\ \A b \in Batches : Returned(b) => PostsOf(b) # {}

\* Witness of C10: while the POST of one thread's drained batch is in
\* flight, another thread has appended an item to the new buffer.
C10_Witness ==
    \E t, u \in Threads :
        /\ t # u
        /\ pc[t] \in {"disc1_wait", "disc2_wait", "final_wait"}
        /\ drained[bid[t]].items # <<>>
        /\ buf # <<>>
        /\ pc[u] = "idle"
        /\ [entry |-> "log", batch |-> 0, out |-> Unit] \in returns
        /\ \E k \in 1..Len(buf) : buf[k].metrics > drained[bid[t]].items[1].metrics

\* C11: with a single caller making only log calls, whenever the caller is
\* between calls after N of them, the buffer holds N mod max_batch items and
\* N div max_batch batches were drained, the b-th inside the call that
\* brought the length to max_batch and holding exactly the items of that
\* stretch, whatever the answers to its POSTs; the buffer holds max_batch
\* items only while that call is about to drain it.
C11_ThresholdFlush ==
    \A t \in SingleCaller :
        /\ Len(buf) <= MaxBatch
        /\ Len(buf) = MaxBatch => pc[t] \in {"flush_lock", "flush_drain"}
        /\ pc[t] = "idle" =>
              /\ Len(buf) = calls % MaxBatch
              /\ Len(drained) = calls \div MaxBatch
              /\ \A b \in Batches :
                    /\ drained[b].entry = "log"
                    /\ Returned(b)
                    /\ PostsOf(b) # {}
                    /\ Len(drained[b].items) = MaxBatch
                    /\ \A k \in 1..MaxBatch :
                          drained[b].items[k].metrics = (b - 1) * MaxBatch + k

\* Witness of C11: the caller is back from call number max_batch + 1; the
\* flush inside call number max_batch failed and one item is pending.
C11_Witness ==
    /\ \A t \in SingleCaller : pc[t] = "idle"
    /\ calls = MaxBatch + 1
    /\ Len(buf) = 1
    /\ Len(drained) = 1
    /\ drained[1].res \notin {Ok, Running}

\* C12: as long as every call made so far is a log call and fewer than
\* max_batch of them were made, no log call goes on to flush, no batch is
\* drained and no POST is issued.
C12_NoPostBelowThreshold ==
    (calls = nextId - 1 /\ calls < MaxBatch) =>
        /\ posts = <<>>
        /\ drained = <<>>
        /\ \A t \in Threads : pc[t] \in {"idle", "log_push"}

\* Witness of C12: max_batch - 1 log calls have returned, nothing else was
\* called, the items are pending and nothing was POSTed.
C12_Witness ==
    /\ calls = MaxBatch - 1
    /\ nextId = MaxBatch
    /\ \A t \in Threads : pc[t] = "idle"
    /\ Len(buf) = MaxBatch - 1
    /\ posts = <<>>

InFlight(t) == pc[t] \in {"disc1_wait", "disc2_wait", "final_wait"}

\* C13: a thread holds the buffer lock only between locking and pushing in
\* log and between locking and draining in flush; a thread that is resolving
\* the endpoint or has a discovery or final POST in flight does not hold it.
\* While a POST is pending, a log call of another thread can take the lock
\* when no third thread holds it, and a log call that holds the lock can
\* append.
C13_PostOutsideLock ==
    \A t \in Threads :
        /\ bufLock = t => pc[t] \in {"log_push", "flush_drain"}
        /\ (InFlight(t) \/ pc[t] \in {"resolve", "final_send"}) => bufLock # t
        /\ InFlight(t) => posts[cur[t]].resp = Pending /\ posts[cur[t]].batch = bid[t]
        /\ \A u \in Threads \ {t} :
              /\ (InFlight(t) /\ pc[u] = "idle" /\ calls < MaxCalls /\ bufLock = NoThread)
                    => ENABLED LogCall(u, None, None)
              /\ (InFlight(t) /\ pc[u] = "log_push") => ENABLED LogPush(u)

\* Witness of C13: the first POST of a flush is pending, and a log call of
\* another thread has appended an item after the drain of that flush and
\* returned without flushing.
C13_Witness ==
    \E t, u \in Threads :
        /\ t # u
        /\ pc[t] = "disc1_wait"
        /\ posts[cur[t]].resp = Pending
        /\ pc[u] = "idle"
        /\ bufLock = NoThread
        /\ Len(buf) = 1
        /\ \A k \in 1..Len(drained[bid[t]].items) :
              buf[1].metrics > drained[bid[t]].items[k].metrics

FlushFailed(b) == drained[b].res \notin {Ok, Running}
IdsOf(b) == {drained[b].items[k].metrics : k \in 1..Len(drained[b].items)}
IdsPosted(i) == {posts[i].payload.metrics_list[k] :
                    k \in 1..Len(posts[i].payload.metrics_list)}

\* C15: once the flush of a non-empty drained batch has returned an error,
\* none of its items is in the pending buffer, none is in another drained
\* batch, no POST of it is still pending, and no POST of another flush
\* carries any of its items.
C15_FailedFlushNoRequeue ==
    \A b \in Batches :
        FlushFailed(b) =>
            /\ IdsOf(b) # {}
            /\ \A k \in 1..Len(buf) : buf[k].metrics \notin IdsOf(b)
            /\ \A c \in Batches \ {b} : IdsOf(c) \cap IdsOf(b) = {}
            /\ \A t \in Threads : bid[t] # b
            /\ \A i \in Posts :
                  IF posts[i].batch = b
                  THEN IsAnswered(i)
                  ELSE IdsPosted(i) \cap IdsOf(b) = {}

\* Witness of C15: the first flush failed; items were logged afterwards and
\* a later flush has drained and POSTed them and returned.
C15_Witness ==
    /\ Len(drained) = 2
    /\ FlushFailed(1)
    /\ Returned(2)
    /\ PostsOf(2) # {}
    /\ \A i \in PostsOf(2) : \A j \in PostsOf(1) : j < i

\* C16: the payload of every POST has metrics_list, steps and timestamps of
\* the length of the drained batch; the k-th entry of each comes from the
\* k-th drained item, a missing step being -1 and a missing timestamp the
\* empty string; the items are in the order of their log calls; config is
\* absent.
C16_PayloadAligned ==
    \A i \in Posts :
        LET its == drained[posts[i].batch].items
            p == posts[i].payload
        IN  /\ Len(p.metrics_list) = Len(its)
            /\ Len(p.steps) = Len(its)
            /\ Len(p.timestamps) = Len(its)
            /\ p.config = None
            /\ \A k \in 1..Len(its) :
                  /\ p.metrics_list[k] = its[k].metrics
                  /\ p.steps[k] = (IF its[k].step = None THEN -1 ELSE its[k].step[1])
                  /\ p.timestamps[k] =
                        (IF its[k].timestamp = None THEN "" ELSE its[k].timestamp[1])
            /\ \A k, l \in 1..Len(its) : k < l => its[k].metrics < its[l].metrics

\* Witness of C16: a POST carries two items, the first logged with a step
\* and no timestamp, the second with a timestamp and no step.
C16_Witness ==
    \E i \in Posts :
        /\ posts[i].payload.metrics_list = <<1, 2>>
        /\ posts[i].payload.steps = <<0, -1>>
        /\ posts[i].payload.timestamps = <<"", "ts">>

LastPostOf(b) == CHOOSE i \in PostsOf(b) : \A j \in PostsOf(b) : j <= i

\* C17: a log call returns (), never an error, and the items its threshold
\* flush drained are not back in the buffer when that flush failed; a flush
\* or close call that drained a batch returns what the flush it performed
\* returned, which is an error whenever the last POST of the flush failed.
C17_ErrorPropagation ==
    /\ \A r \in returns :
          /\ r.entry = "log" => r.out = Unit
          /\ (r.entry \in {"flush", "close"} /\ r.batch # 0) =>
                /\ r.out = drained[r.batch].res
                /\ r.entry = drained[r.batch].entry
    /\ \A b \in Batches :
          Returned(b) =>
              /\ [entry |-> drained[b].entry, batch |-> b,
                  out |-> Surfaced(drained[b].entry, drained[b].res)] \in returns
              /\ Failed(LastPostOf(b)) => FlushFailed(b)
              /\ (drained[b].entry = "log" /\ FlushFailed(b)) =>
                    \A k \in 1..Len(buf) : buf[k].metrics \notin IdsOf(b)
              /\ (drained[b].entry \in {"flush", "close"} /\ Failed(LastPostOf(b))) =>
                    \E r \in returns :
                        r.batch = b /\ r.out \notin {Ok, Unit, Running}

\* Witness of C17: the threshold flush of a log call failed and the call
\* returned (); an explicit flush or close failed and returned the error.
C17_Witness ==
    \E b, c \in Batches :
        /\ drained[b].entry = "log"
        /\ FlushFailed(b)
        /\ [entry |-> "log", batch |-> b, out |-> Unit] \in returns
        /\ drained[c].entry \in {"flush", "close"}
        /\ FlushFailed(c)
        /\ [entry |-> drained[c].entry, batch |-> c, out |-> drained[c].res] \in returns

\* C18: a POST issued while the cache is unset is a discovery POST; the
\* first candidate of a flush is the primary path; the fallback is POSTed
\* by the resolver only after the primary POST of the same flush was answered
\* and failed; each candidate is tried at most once per flush; a flush whose
\* primary candidate succeeded POSTs to the primary path only.
C18_CandidatesInOrder ==
    /\ \A j \in Posts :
          /\ posts[j].cached = None <=> posts[j].phase \in {"disc1", "disc2"}
          /\ posts[j].phase = "disc1" => posts[j].path = PrimaryPath
          /\ posts[j].phase = "disc2" =>
                /\ posts[j].path = FallbackPath
                /\ \E i \in PostsOf(posts[j].batch) :
                      i < j /\ posts[i].phase = "disc1" /\ Failed(i)
    /\ \A b \in Batches :
          /\ Cardinality({i \in PostsOf(b) : posts[i].phase = "disc1"}) <= 1
          /\ Cardinality({i \in PostsOf(b) : posts[i].phase = "disc2"}) <= 1
          /\ (\E i \in PostsOf(b) : posts[i].phase = "disc1" /\ Answered2xx(i)) =>
                \A j \in PostsOf(b) : posts[j].path = PrimaryPath

\* Witness of C18: one flush tried the primary, which failed, and then the
\* fallback, which failed too; the next flush tried the primary, which
\* succeeded, and has returned without a POST to the fallback.
C18_Witness ==
    /\ Len(drained) = 2
    /\ AllCandidatesFailed(1)
    /\ Returned(2)
    /\ \E i \in PostsOf(2) : posts[i].phase = "disc1" /\ Answered2xx(i)
    /\ \A i \in PostsOf(2) : posts[i].path = PrimaryPath

LogInProgress(t) == op[t] = "log"
BeforeOwnFlush(t) == LogInProgress(t) /\ pc[t] \in {"flush_lock", "flush_drain"}

\* C19: whenever the pending buffer holds max_batch items or more, some log
\* call has appended and has not yet drained in the flush it calls; so with
\* no log call in progress the buffer holds fewer than max_batch items.
C19_BelowThresholdAtRest ==
    /\ Len(buf) >= MaxBatch => \E t \in Threads : BeforeOwnFlush(t)
    /\ (\A t \in Threads : ~LogInProgress(t)) => Len(buf) < MaxBatch

\* Witness of C19: two log calls have appended one after the other, both
\* are about to flush and the buffer holds more than max_batch items.
C19_Witness ==
    /\ Len(buf) = MaxBatch + 1
    /\ \E t, u \in Threads :
          t # u /\ BeforeOwnFlush(t) /\ BeforeOwnFlush(u) /\ pc[u] = "flush_lock"

\* C20: an explicit flush that has returned Ok had a POST of its batch
\* answered 2xx, and one that has returned an error had no POST of its batch
\* answered 2xx.
C20_ResultTellsDelivery ==
    \A b \in Batches :
        (drained[b].entry = "flush" /\ Returned(b)) =>
            /\ drained[b].res = Ok => \E i \in PostsOf(b) : Answered2xx(i)
            /\ FlushFailed(b) => \A i \in PostsOf(b) : ~Answered2xx(i)

(***************************************************************************)
(* Properties of Batcher.                                                  *)
(***************************************************************************)

\* C14: an explicit flush or close of the Client that finds the buffer empty
\* returns Ok, and a Batcher flush that POSTs nothing returns Ok; every POST
\* of either carries a non-empty batch; the Batcher's mutex is poisoned, and
\* a thread is stuck or has panicked, only while the buffer is not empty.
C14_EmptyFlushNoPost ==
    /\ \A r \in returns : (r.batch = 0 /\ r.entry \in {"flush", "close"}) => r.out = Ok
    /\ \A i \in Posts :
          /\ posts[i].batch \in Batches
          /\ drained[posts[i].batch].items # <<>>
          /\ posts[i].payload.metrics_list # <<>>
    /\ \A b \in Batches : drained[b].items # <<>>
    /\ \A r \in breturns : (~r.sent /\ r.entry = "flush") => r.out = Ok
    /\ \A i \in 1..Len(bposts) : bposts[i].items # <<>>
    /\ \A t \in BThreads : bpc[t] \in {"post_send", "post_wait"} => items[t] # <<>>
    /\ (poisoned \/ \E t \in BThreads : bpc[t] \in {"deadlocked", "panicked"})
          => batcher_buf # <<>>

\* Witness of C14, Client: after a flush whose candidates both failed, the
\* cache is unset, and a flush on the empty buffer has returned Ok without
\* a POST.
C14_WitnessClient ==
    /\ [entry |-> "flush", batch |-> 0, out |-> Ok] \in returns
    /\ Len(drained) = 1
    /\ drained[1].res = ErrNoBulkEndpoint
    /\ Cardinality(Posts) = 2
    /\ \A t \in Threads : pc[t] = "idle"

\* Witness of C14, Batcher: a flush on the empty buffer has returned Ok
\* without a POST.
C14_WitnessBatcher ==
    /\ [entry |-> "flush", sent |-> FALSE, out |-> Ok] \in breturns
    /\ bposts = <<>>

\* Witness of C14: one of the two.
C14_Witness == C14_WitnessClient \/ C14_WitnessBatcher

\* C2: an enqueue that reaches max_batch has released the buffer lock when
\* its flush locks the buffer, it never gets stuck or panics, and the mutex
\* stays usable by the other threads.
C2_EnqueueFlushReturns ==
    /\ \A t \in Threads : (bpc[t] = "flush_lock" /\ entry[t] = "enqueue") => guard # t
    /\ \A t \in BThreads : bpc[t] \notin {"deadlocked", "panicked"}
    /\ ~poisoned

\* C7: the timer thread never issues the POST of a flush while the POST of
\* another flush is in flight.
C7_TimerNeverOverlaps ==
    [][(bpc[Timer] = "post_send" /\ bpc'[Timer] = "post_wait")
          => \A t \in Threads : bpc[t] # "post_wait"]_vars

====
